---- MODULE Spec2Model ----
(***************************************************************************)
(* Model of the CLOG generator (clog.py, filters.py): Email construction,  *)
(* the filter engine, classification/sorting, the bad-format export and    *)
(* the main run.                                                           *)
(*                                                                         *)
(* Python strings are sequences of tokens (a token is a character, a word, *)
(* or a MIME encoded-word).  Values of fields that hold more than one      *)
(* Python type (date, year, filter_value) are tagged records whose first   *)
(* field "kind" names the type.                                            *)
(***************************************************************************)
EXTENDS Integers, Sequences, FiniteSets, TLC

VARIABLES
    emails,     \* the Email objects built so far, in encounter order
    raws,       \* the raw message each Email object was built from
    out,        \* arguments and return value of the last validate_and_sort_emails
    prev,       \* return value and records before a repeated call
    last,       \* the last operation called and the exception it raised, if any
    rows,       \* the rows the last export_bad_emails handed to export_csv
    pc,         \* position of main ("api" when the functions are called directly)
    mbox,       \* the messages of the mailbox file main reads
    year_arg,   \* args.year of main
    filters,    \* main's local variable filters
    run_filters \* main's local variable run_filters

vars == <<emails, raws, out, prev, last, rows, pc, mbox, year_arg, filters, run_filters>>

\* ---------------------------------------------------------------- bounds
\* Longest list of Email objects / longest mailbox explored.
MaxEmails == 2

\* ------------------------------------------------------- Python values
PyNone == [kind |-> "None"]
PyInt(n) == [kind |-> "int", val |-> n]
PyStr(s) == [kind |-> "str", val |-> s]
Arrow(y, s) == [kind |-> "Arrow", year |-> y, sec |-> s]

\* Python attribute/text values of the two date kinds after format().
UsDate(yy) == [kind |-> "usdate", yy |-> yy]

\* ------------------------------------------------------- _clean_header
\* Characters matched by the regex class \s.
Whitespace == {" ", "\t"}

\* What decode_header/make_header turn a token into: a MIME encoded-word
\* becomes its text; one naming an unknown charset makes make_header raise.
DecodeWord(tok) ==
    IF tok = "=?utf-8?q?a?=" THEN [ok |-> TRUE, text |-> "a"]
    ELSE IF tok = "=?foo?q?a?=" THEN [ok |-> FALSE, text |-> tok]
    ELSE [ok |-> TRUE, text |-> tok]

RECURSIVE SkipWhitespace(_)
SkipWhitespace(h) ==
    IF h # <<>> /\ Head(h) \in Whitespace THEN SkipWhitespace(Tail(h)) ELSE h

\* re.sub(r"\s\s+", " ", header): every run of two or more whitespace
\* characters becomes one space; a lone whitespace character is kept as is.
RECURSIVE CollapseWhitespace(_)
CollapseWhitespace(h) ==
    IF h = <<>> THEN <<>>
    ELSE IF Head(h) \in Whitespace /\ Len(h) >= 2 /\ h[2] \in Whitespace
         THEN <<" ">> \o CollapseWhitespace(SkipWhitespace(h))
         ELSE <<Head(h)>> \o CollapseWhitespace(Tail(h))

\* str(make_header(decode_header(h))): raises when a word cannot be decoded.
DecodeHeader(h) ==
    [ok   |-> \A i \in 1..Len(h) : DecodeWord(h[i]).ok,
     text |-> [i \in 1..Len(h) |-> DecodeWord(h[i]).text]]

\* Email._clean_header: an absent (None) or empty header is falsy and gives
\* ""; on any exception valid_headers is cleared and the raw header returned.
\* An absent header and an empty one are both the empty sequence here.
CleanHeader(header) ==
    IF header = <<>> THEN [ok |-> TRUE, text |-> <<>>]
    ELSE LET d == DecodeHeader(CollapseWhitespace(header))
         IN  IF d.ok THEN [ok |-> TRUE, text |-> d.text]
             ELSE [ok |-> FALSE, text |-> header]

\* ------------------------------------------------------- address.parse
\* flanker's address.parse: a mailbox "local@host" or "Name <local@host>"
\* gives an address object, anything else gives None.
AddressParse(s) ==
    IF Len(s) = 3 /\ s[2] = "@"
    THEN [kind |-> "EmailAddress", display_name |-> <<>>,
          address |-> s, hostname |-> <<s[3]>>]
    ELSE IF Len(s) = 7 /\ s[2] = " " /\ s[3] = "<" /\ s[5] = "@" /\ s[7] = ">"
    THEN [kind |-> "EmailAddress", display_name |-> <<s[1]>>,
          address |-> <<s[4], s[5], s[6]>>, hostname |-> <<s[6]>>]
    ELSE PyNone

\* ------------------------------------------------------ _validate_date
\* Number of entries of date_formats.
NumDateFormats == 11

NoMatch == [kind |-> "ParserError"]

\* A raw Date header is a Python str (or None when the header is absent).
\* Its text is the token sequence val; what arrow.get makes of it under each
\* of the date_formats is carried in parses (NoMatch: arrow raises).
DateStr(text, parses) == [kind |-> "str", val |-> text, parses |-> parses]

Only(f, a) == [g \in 1..NumDateFormats |-> IF g = f THEN a ELSE NoMatch]
Both(f1, a1, f2, a2) ==
    [g \in 1..NumDateFormats |->
        IF g = f1 THEN a1 ELSE IF g = f2 THEN a2 ELSE NoMatch]
Never == [g \in 1..NumDateFormats |-> NoMatch]

\* arrow.get(date, date_format): raises for a non-string or a mismatch.
ArrowGet(date, f) ==
    IF date.kind = "str" THEN date.parses[f] ELSE NoMatch

\* Variant of the loop without the break: the last format that parses wins.
RECURSIVE TryFormatsLast(_, _)
TryFormatsLast(date, f) ==
    IF f > NumDateFormats THEN PyNone
    ELSE LET later == TryFormatsLast(date, f + 1)
         IN  IF later # PyNone THEN later
             ELSE IF ArrowGet(date, f) # NoMatch THEN ArrowGet(date, f)
             ELSE PyNone

\* The loop of _validate_date from format index f on: the first format that
\* parses wins (break); None when the list is exhausted.
RECURSIVE TryFormatsFrom(_, _)
TryFormatsFrom(date, f) ==
    IF f > NumDateFormats THEN PyNone
    ELSE IF ArrowGet(date, f) # NoMatch THEN ArrowGet(date, f)
    ELSE TryFormatsFrom(date, f + 1)

\* Email._validate_date: returns the new value of self.valid_date and the
\* value stored in self.date.
ValidateDate(date) ==
    LET arrow_date == TryFormatsFrom(date, 1)
    IN  IF arrow_date = PyNone
        THEN [valid_date |-> FALSE, date |-> date]
        ELSE [valid_date |-> TRUE, date |-> arrow_date]

\* Email._find_year
FindYear(date) ==
    IF date.kind = "Arrow" THEN PyInt(date.year) ELSE PyNone

\* self.date.format("M/D/YY"): Arrow.format renders the date with a two
\* digit year; str.format returns the string itself unless it holds a brace,
\* which raises; None has no attribute format.
DateFormat(date) ==
    IF date.kind = "Arrow"
    THEN [ok |-> TRUE, text |-> UsDate(date.year % 100), what |-> ""]
    ELSE IF date.kind = "str"
    THEN IF \E i \in 1..Len(date.val) : date.val[i] \in {"{", "}"}
         THEN [ok |-> FALSE, text |-> PyNone, what |-> "ValueError"]
         ELSE [ok |-> TRUE, text |-> PyStr(date.val), what |-> ""]
    ELSE [ok |-> FALSE, text |-> PyNone, what |-> "AttributeError"]

\* -------------------------------------------------------- Email.__init__
\* A raw message is the four headers the mailbox hands to Email().
EmailInit(m) ==
    LET from_clean == CleanHeader(m.from_address)
        from_address == AddressParse(from_clean.text)
        to_clean == CleanHeader(m.to_address)
        subject_clean == CleanHeader(m.subject)
        vd == ValidateDate(m.date)
        us == DateFormat(vd.date)
    IN  IF from_address = PyNone
        THEN [raised |-> TRUE, what |-> "AttributeError"]
        ELSE IF ~us.ok
        THEN [raised |-> TRUE, what |-> us.what]
        ELSE [raised |-> FALSE,
              email |->
                [valid_date |-> vd.valid_date,
                 valid_headers |-> from_clean.ok /\ to_clean.ok /\ subject_clean.ok,
                 from_address |-> from_address,
                 from_address_email |-> from_address.address,
                 from_address_name |-> from_address.display_name,
                 from_address_host |-> from_address.hostname,
                 to_address |-> to_clean.text,
                 subject |-> subject_clean.text,
                 date |-> vd.date,
                 year |-> FindYear(vd.date),
                 us_date |-> us.text,
                 passed_filters |-> "None",
                 filter_reason |-> "None",
                 filter_value |-> PyNone]]

\* ----------------------------------------------- check_against_filters
FilterKeys == {"domains", "emails", "keywords", "staff"}

\* Python truthiness of the filters argument: None and {} are falsy.
Truthy(f) == f # PyNone /\ DOMAIN f # {}

\* keyword in subject: substring test on str.
Contains(sub, s) ==
    \E i \in 0..(Len(s) - Len(sub)) : SubSeq(s, i + 1, i + Len(sub)) = sub

\* Variant that consults the emails list before the domains and staff lists.
CheckEmailsFirst(email, f) ==
    IF ~(FilterKeys \subseteq DOMAIN f)
    THEN [raised |-> TRUE, what |-> "KeyError", email |-> email]
    ELSE [raised |-> FALSE, what |-> "",
          email |->
            IF email.from_address_email \in f.emails
            THEN [email EXCEPT !.passed_filters = "False",
                               !.filter_reason = "Email address in filter list",
                               !.filter_value = PyStr(email.from_address_email)]
            ELSE IF email.from_address_host \in f.domains
            THEN [email EXCEPT !.passed_filters = "False",
                               !.filter_reason = "Domain in filter list",
                               !.filter_value = PyStr(email.from_address_host)]
            ELSE IF email.from_address_email \in f.staff
            THEN [email EXCEPT !.passed_filters = "False",
                               !.filter_reason = "Staff",
                               !.filter_value = PyStr(email.from_address_email)]
            ELSE IF \E keyword \in f.keywords : Contains(keyword, email.subject)
            THEN [email EXCEPT !.passed_filters = "False",
                               !.filter_reason = "Subject contains keyword in filter list",
                               !.filter_value = PyStr(email.subject)]
            ELSE [email EXCEPT !.passed_filters = "True"]]

\* check_against_filters: reading a key the mapping lacks raises KeyError
\* before the record is touched; otherwise the first matching list decides.
CheckAgainstFilters(email, f) ==
    IF ~(FilterKeys \subseteq DOMAIN f)
    THEN [raised |-> TRUE, what |-> "KeyError", email |-> email]
    ELSE [raised |-> FALSE, what |-> "",
          email |->
            IF email.from_address_host \in f.domains
            THEN [email EXCEPT !.passed_filters = "False",
                               !.filter_reason = "Domain in filter list",
                               !.filter_value = PyStr(email.from_address_host)]
            ELSE IF email.from_address_email \in f.staff
            THEN [email EXCEPT !.passed_filters = "False",
                               !.filter_reason = "Staff",
                               !.filter_value = PyStr(email.from_address_email)]
            ELSE IF email.from_address_email \in f.emails
            THEN [email EXCEPT !.passed_filters = "False",
                               !.filter_reason = "Email address in filter list",
                               !.filter_value = PyStr(email.from_address_email)]
            ELSE IF \E keyword \in f.keywords : Contains(keyword, email.subject)
            THEN [email EXCEPT !.passed_filters = "False",
                               !.filter_reason = "Subject contains keyword in filter list",
                               !.filter_value = PyStr(email.subject)]
            ELSE [email EXCEPT !.passed_filters = "True"]]

\* -------------------------------------------- validate_and_sort_emails
\* Arrow ordering: by instant.
DateLess(a, b) == a.year < b.year \/ (a.year = b.year /\ a.sec < b.sec)

\* sorted(bucket, key=lambda x: x.date) is a stable sort; buckets are
\* sequences of indices into the list of Email objects es.
RECURSIVE InsertByDate(_, _, _)
InsertByDate(i, sorted, es) ==
    IF sorted = <<>> THEN <<i>>
    ELSE IF DateLess(es[i].date, es[Head(sorted)].date)
         THEN <<i>> \o sorted
         ELSE <<Head(sorted)>> \o InsertByDate(i, Tail(sorted), es)

RECURSIVE SortedByDate(_, _)
SortedByDate(bucket, es) ==
    IF bucket = <<>> THEN <<>>
    ELSE InsertByDate(bucket[Len(bucket)],
                      SortedByDate(SubSeq(bucket, 1, Len(bucket) - 1), es), es)

\* Variant that compares the year before it looks at the validity flags.
ClassifyYearFirst(e, year, f) ==
    IF e.year # year
    THEN [bucket |-> "filtered",
          email |-> [e EXCEPT !.passed_filters = "False",
                              !.filter_reason = "Incorrect Year",
                              !.filter_value = e.year]]
    ELSE IF ~e.valid_date \/ ~e.valid_headers
    THEN [bucket |-> "bad_formats", email |-> e]
    ELSE IF Truthy(f) /\ e.passed_filters # "True"
    THEN [bucket |-> "filtered", email |-> e]
    ELSE [bucket |-> "valid", email |-> e]

\* Variant that leaves alone a record an earlier call flagged for its year.
ClassifySkipFlagged(e, year, f) ==
    IF ~e.valid_date \/ ~e.valid_headers
    THEN [bucket |-> "bad_formats", email |-> e]
    ELSE IF e.year # year /\ e.filter_reason # "Incorrect Year"
    THEN [bucket |-> "filtered",
          email |-> [e EXCEPT !.passed_filters = "False",
                              !.filter_reason = "Incorrect Year",
                              !.filter_value = e.year]]
    ELSE IF Truthy(f) /\ e.passed_filters # "True"
    THEN [bucket |-> "filtered", email |-> e]
    ELSE [bucket |-> "valid", email |-> e]

\* The bucket the classification loop appends record e to, and the record
\* as the loop leaves it.
Classify(e, year, f) ==
    IF ~e.valid_date \/ ~e.valid_headers
    THEN [bucket |-> "bad_formats", email |-> e]
    ELSE IF e.year # year
    THEN [bucket |-> "filtered",
          email |-> [e EXCEPT !.passed_filters = "False",
                              !.filter_reason = "Incorrect Year",
                              !.filter_value = e.year]]
    ELSE IF Truthy(f) /\ e.passed_filters # "True"
    THEN [bucket |-> "filtered", email |-> e]
    ELSE [bucket |-> "valid", email |-> e]

\* Reasons whose records are dropped from the filtered bucket.
SuppressedReasons == {"Staff", "Incorrect Year"}

\* The post-processing of the filtered bucket.
PostFiltered(bucket, es, f) ==
    IF Truthy(f)
    THEN SortedByDate(
             SelectSeq(bucket, LAMBDA i : es[i].filter_reason \notin SuppressedReasons),
             es)
    ELSE bucket

\* emails = [check_against_filters(email, filters) for email in emails]
RECURSIVE CheckAll(_, _)
CheckAll(es, f) ==
    IF es = <<>> THEN [raised |-> FALSE, emails |-> <<>>]
    ELSE LET c == CheckAgainstFilters(Head(es), f)
             rest == CheckAll(Tail(es), f)
         IN  IF c.raised \/ rest.raised THEN [raised |-> TRUE, emails |-> <<>>]
             ELSE [raised |-> FALSE, emails |-> <<c.email>> \o rest.emails]

\* The classification loop over the records, in encounter order.
RECURSIVE ClassifyAll(_, _, _)
ClassifyAll(es, year, f) ==
    IF es = <<>> THEN <<>>
    ELSE <<Classify(Head(es), year, f)>> \o ClassifyAll(Tail(es), year, f)

\* validate_and_sort_emails(emails, year, filters): the records after the
\* call and the three returned buckets; assigned is the bucket the loop put
\* each record in.
ValidateAndSort(es, year, f) ==
    LET n == Len(es)
        checked == IF Truthy(f) THEN CheckAll(es, f)
                   ELSE [raised |-> FALSE, emails |-> es]
        cls == ClassifyAll(checked.emails, year, f)
        es2 == [i \in 1..n |-> cls[i].email]
        assigned == [i \in 1..n |-> cls[i].bucket]
        Bucket(b) == SelectSeq([i \in 1..n |-> i], LAMBDA i : assigned[i] = b)
    IN  IF checked.raised
        THEN [raised |-> TRUE, what |-> "KeyError", emails |-> es,
              valid |-> <<>>, bad_formats |-> <<>>, filtered |-> <<>>,
              assigned |-> <<>>]
        ELSE [raised |-> FALSE, what |-> "", emails |-> es2,
              valid |-> SortedByDate(Bucket("valid"), es2),
              bad_formats |-> Bucket("bad_formats"),
              filtered |-> PostFiltered(Bucket("filtered"), es2, f),
              assigned |-> assigned]

\* ---------------------------------------------------- export_bad_emails
\* Attributes an Email object has (those __init__ assigns).
HasAttr(e, name) == name \in DOMAIN e

\* export_bad_emails: one row per cleared validity flag; reading an
\* attribute the object lacks raises AttributeError.
RECURSIVE BadRows(_, _)
BadRows(bucket, es) ==
    IF bucket = <<>> THEN [raised |-> FALSE, rows |-> <<>>]
    ELSE LET e == es[Head(bucket)]
             rest == BadRows(Tail(bucket), es)
             date_row == IF ~e.valid_date
                         THEN <<[reason |-> "Incorrect Date Format", data |-> e.date]>>
                         ELSE <<>>
         IN  IF ~e.valid_headers /\ ~HasAttr(e, "header")
             THEN [raised |-> TRUE, rows |-> <<>>]
             ELSE IF rest.raised THEN rest
             ELSE [raised |-> FALSE,
                   rows |-> date_row
                            \o (IF ~e.valid_headers
                                THEN <<[reason |-> "Incorrect Header Format",
                                        data |-> e.header]>>
                                ELSE <<>>)
                            \o rest.rows]

\* --------------------------------------------------------- export_emails
\* list(email): the row export_emails writes for a valid record.
ValidRow(e) ==
    <<PyStr(e.subject), PyStr(e.from_address_name), PyStr(e.from_address_email),
      PyStr(e.to_address), e.us_date>>

\* export_filter_stats: number of filtered records per sender host.
HostCounts(bucket, es) ==
    [h \in {es[bucket[k]].from_address_host : k \in 1..Len(bucket)} |->
        Cardinality({k \in 1..Len(bucket) : es[bucket[k]].from_address_host = h})]

\* ---------------------------------------------------------- load_filters
\* The tables queried, in the order of qb_ids.
QbNames == <<"domains", "emails", "keywords">>

\* What a Quickbase query can end in.
QbOutcomes == {"ok", "ConnectionError", "HTTPError", "JSONDecodeError"}

\* The loop of load_filters from table k on: a failed query returns None,
\* a successful one stores the column under the table's name.
RECURSIVE LoadFrom(_, _, _, _)
LoadFrom(k, acc, net, data) ==
    IF k > Len(QbNames) THEN acc
    ELSE IF net[k] # "ok" THEN PyNone
    ELSE LoadFrom(k + 1, acc @@ (QbNames[k] :> data[k]), net, data)

\* load_filters(): filters starts as {}.
LoadFilters(net, data) == LoadFrom(1, [x \in {} |-> x], net, data)

\* ------------------------------------------------------------ process_mbox
\* Email(...) for each message in turn; an exception ends the loop.
RECURSIVE ProcessMbox(_)
ProcessMbox(msgs) ==
    IF msgs = <<>> THEN [raised |-> FALSE, what |-> "", emails |-> <<>>]
    ELSE LET r == EmailInit(Head(msgs))
             rest == ProcessMbox(Tail(msgs))
         IN  IF r.raised THEN [raised |-> TRUE, what |-> r.what, emails |-> <<>>]
             ELSE IF rest.raised THEN rest
             ELSE [raised |-> FALSE, what |-> "",
                   emails |-> <<r.email>> \o rest.emails]

\* ------------------------------------------------------------ input pools
Msg(s, f, t, d) == [subject |-> s, from_address |-> f, to_address |-> t, date |-> d]

SpamSubject == <<"spam", " ", "\t", "offer">>
ReSpamSubject == <<"=?utf-8?q?a?=", "spam">>
HiSubject == <<"hi">>
UndecodableSubject == <<"=?foo?q?a?=">>

BadSender == <<"a", "@", "bad.com">>
NamedSender == <<"Al", " ", "<", "s", "@", "lab.org", ">">>
ToBob == <<"bob", "@", "x.com">>

\* Date strings: one that both the first and the fourth format read
\* (differently), one earlier in the same year, one of another year, two
\* that no format reads; PyNone is the absent Date header.
DateTwoFormats == DateStr(<<"Mon, 2 Jan 2023 10:00:00 +0100">>,
                          Both(1, Arrow(2023, 2), 4, Arrow(2023, 3)))
DateEarly == DateStr(<<"1 Jan 2023 08:00:00 +0000">>, Only(6, Arrow(2023, 1)))
DateOtherYear == DateStr(<<"12/31/22, 23:59">>, Only(9, Arrow(2022, 5)))
DateUnknown == DateStr(<<"yesterday">>, Never)
DateBrace == DateStr(<<"{", "date", "}">>, Never)

\* Messages Email() accepts.
GoodMessages ==
    { Msg(SpamSubject, BadSender, ToBob, DateTwoFormats),
      Msg(ReSpamSubject, NamedSender, ToBob, DateEarly),
      Msg(HiSubject, BadSender, ToBob, DateOtherYear),
      Msg(<<>>, BadSender, <<>>, DateUnknown),
      Msg(UndecodableSubject, BadSender, ToBob, DateEarly) }

\* Messages with a sender address.parse rejects, no From header, no Date
\* header, a date with a brace.
OddMessages ==
    { Msg(HiSubject, <<"undisclosed-recipients">>, ToBob, DateEarly),
      Msg(HiSubject, <<>>, ToBob, DateEarly),
      Msg(HiSubject, BadSender, ToBob, PyNone),
      Msg(HiSubject, BadSender, ToBob, DateBrace) }

RawMessages == GoodMessages \cup OddMessages

\* Messages for the filter engine: every subject with every sender (one in
\* all the lists, one of a listed domain only, one in no list).
FilterMessages ==
    { Msg(s, f, ToBob, DateEarly) :
        s \in {SpamSubject, ReSpamSubject, HiSubject, <<>>},
        f \in {BadSender, <<"b", "@", "bad.com">>, NamedSender} }

\* Year filters.
Years == {2022, 2023}
YearArgs == {PyInt(y) : y \in Years}

\* Filter lists with all four keys.
FilterLists ==
    [domains  : SUBSET {<<"bad.com">>},
     staff    : SUBSET {BadSender},
     emails   : SUBSET {BadSender},
     keywords : SUBSET {<<"spam">>}]

\* --------------------------------------------------------------- states
NoCall == [called |-> FALSE, year |-> PyNone, filters |-> PyNone,
           valid |-> <<>>, bad_formats |-> <<>>, filtered |-> <<>>,
           assigned |-> <<>>]
NoPrev == [set |-> FALSE, valid |-> <<>>, bad_formats |-> <<>>,
           filtered |-> <<>>, emails |-> <<>>]
NoRows == [valid |-> <<>>, bad |-> <<>>, stats |-> <<>>]
Called(op, what) == [op |-> op, what |-> what, again |-> FALSE, args |-> <<>>]

Init ==
    /\ emails = <<>>
    /\ raws = <<>>
    /\ out = NoCall
    /\ prev = NoPrev
    /\ last = Called("", "")
    /\ rows = NoRows
    /\ pc = "api"
    /\ mbox = <<>>
    /\ year_arg = 2023
    /\ filters = PyNone
    /\ run_filters = TRUE

mainVars == <<pc, mbox, year_arg, filters, run_filters>>

\* ---------------------------------------- the functions called directly
\* Email(subject, from, to, date); the records are built before they are
\* filtered or classified.
Construct(m) ==
    /\ pc = "api"
    /\ last.op \in {"", "Email"}
    /\ Len(emails) < MaxEmails
    /\ LET r == EmailInit(m)
       IN  IF r.raised
           THEN /\ last' = Called("Email", r.what)
                /\ UNCHANGED <<emails, raws>>
           ELSE /\ emails' = Append(emails, r.email)
                /\ raws' = Append(raws, m)
                /\ last' = Called("Email", "")
    /\ UNCHANGED <<out, prev, rows, mainVars>>

\* check_against_filters(emails[i], f)
Check(i, f) ==
    /\ pc = "api"
    /\ i \in 1..Len(emails)
    /\ LET r == CheckAgainstFilters(emails[i], f)
       IN  /\ emails' = [emails EXCEPT ![i] = r.email]
           /\ last' = [Called("check_against_filters", r.what) EXCEPT !.args = <<i, f>>]
    /\ prev' = NoPrev
    /\ rows' = NoRows
    /\ UNCHANGED <<raws, out, mainVars>>

OutOf(r, y, f) ==
    [called |-> TRUE, year |-> y, filters |-> f, valid |-> r.valid,
     bad_formats |-> r.bad_formats, filtered |-> r.filtered,
     assigned |-> r.assigned]

\* validate_and_sort_emails(emails, y, f)
Validate(y, f) ==
    /\ pc = "api"
    /\ LET r == ValidateAndSort(emails, y, f)
       IN  /\ emails' = r.emails
           /\ out' = IF r.raised THEN out ELSE OutOf(r, y, f)
           /\ last' = Called("validate_and_sort_emails", r.what)
    /\ prev' = NoPrev
    /\ rows' = NoRows
    /\ UNCHANGED <<raws, mainVars>>

\* validate_and_sort_emails called again on the records the previous call
\* left, with the previous call's arguments.
Revalidate ==
    /\ pc = "api"
    /\ last.op = "validate_and_sort_emails"
    /\ last.what = ""
    /\ LET r == ValidateAndSort(emails, out.year, out.filters)
       IN  /\ emails' = r.emails
           /\ out' = OutOf(r, out.year, out.filters)
    /\ prev' = [set |-> TRUE, valid |-> out.valid, bad_formats |-> out.bad_formats,
                filtered |-> out.filtered, emails |-> emails]
    /\ last' = [Called("validate_and_sort_emails", "") EXCEPT !.again = TRUE]
    /\ rows' = NoRows
    /\ UNCHANGED <<raws, mainVars>>

\* export_bad_emails(bad_formats, ...) on the bucket of the last call
ExportBad ==
    /\ pc = "api"
    /\ out.called
    /\ LET r == BadRows(out.bad_formats, emails)
       IN  /\ rows' = [NoRows EXCEPT !.bad = r.rows]
           /\ last' = Called("export_bad_emails",
                             IF r.raised THEN "AttributeError" ELSE "")
    /\ prev' = NoPrev
    /\ UNCHANGED <<emails, raws, out, mainVars>>

Next ==
    \/ \E m \in RawMessages : Construct(m)
    \/ \E y \in YearArgs, f \in FilterLists \cup {PyNone} : Validate(y, f)
    \/ Revalidate
    \/ ExportBad

Spec == Init /\ [][Next]_vars

\* The filter engine alone: one record, checked against filter lists again
\* and again.
InitFilters ==
    /\ \E m \in FilterMessages :
          /\ emails = <<EmailInit(m).email>>
          /\ raws = <<m>>
    /\ out = NoCall
    /\ prev = NoPrev
    /\ last = Called("Email", "")
    /\ rows = NoRows
    /\ pc = "api"
    /\ mbox = <<>>
    /\ year_arg = 2023
    /\ filters = PyNone
    /\ run_filters = TRUE

NextFilters == \E i \in 1..Len(emails), f \in FilterLists : Check(i, f)

SpecFilters == InitFilters /\ [][NextFilters]_vars

\* ------------------------------------------------------------------ main
\* Mailbox files of at most MaxEmails messages.
Mailboxes == UNION {[1..n -> RawMessages] : n \in 0..MaxEmails}

\* State after argument parsing: args.filter is always True (store_true with
\* default True), filters is not bound yet.
InitMain ==
    /\ emails = <<>>
    /\ raws = <<>>
    /\ out = NoCall
    /\ prev = NoPrev
    /\ last = Called("", "")
    /\ rows = NoRows
    /\ pc = "start"
    /\ mbox \in Mailboxes
    /\ year_arg \in Years
    /\ filters = PyNone
    /\ run_filters = TRUE

\* if run_filters: filters = load_filters(); if not filters: run_filters = False
MainLoadFilters ==
    /\ pc = "start"
    /\ \E net \in [1..3 -> QbOutcomes],
          d \in SUBSET {<<"bad.com">>}, e \in SUBSET {BadSender},
          k \in SUBSET {<<"spam">>} :
            /\ filters' = LoadFilters(net, <<d, e, k>>)
            /\ run_filters' = Truthy(filters')
    /\ last' = Called("load_filters", "")
    /\ pc' = "loaded"
    /\ UNCHANGED <<emails, raws, out, prev, rows, mbox, year_arg>>

\* emails, num_emails = process_mbox(mailbox_filename)
MainProcessMbox ==
    /\ pc = "loaded"
    /\ LET r == ProcessMbox(mbox)
       IN  IF r.raised
           THEN /\ pc' = "crashed"
                /\ last' = Called("Email", r.what)
                /\ UNCHANGED <<emails, raws>>
           ELSE /\ pc' = "processed"
                /\ last' = Called("process_mbox", "")
                /\ emails' = r.emails
                /\ raws' = mbox
    /\ UNCHANGED <<out, prev, rows, mbox, year_arg, filters, run_filters>>

\* validate_and_sort_emails(emails, year, filters)
MainValidate ==
    /\ pc = "processed"
    /\ LET r == ValidateAndSort(emails, PyInt(year_arg), filters)
       IN  /\ emails' = r.emails
           /\ out' = IF r.raised THEN out ELSE OutOf(r, PyInt(year_arg), filters)
           /\ last' = Called("validate_and_sort_emails", r.what)
           /\ pc' = IF r.raised THEN "crashed" ELSE "sorted"
    /\ UNCHANGED <<raws, prev, rows, mbox, year_arg, filters, run_filters>>

\* export_emails, export_filter_stats (when run_filters) and, when the
\* bad_formats bucket is not empty, export_bad_emails.
MainExport ==
    /\ pc = "sorted"
    /\ LET r == BadRows(out.bad_formats, emails)
       IN  /\ rows' = [valid |-> [k \in 1..Len(out.valid) |-> ValidRow(emails[out.valid[k]])],
                       stats |-> IF run_filters THEN HostCounts(out.filtered, emails)
                                 ELSE <<>>,
                       bad |-> r.rows]
           /\ last' = Called("export_bad_emails",
                             IF r.raised THEN "AttributeError" ELSE "")
           /\ pc' = IF r.raised THEN "crashed" ELSE "done"
    /\ UNCHANGED <<emails, raws, out, prev, mbox, year_arg, filters, run_filters>>

NextMain ==
    \/ MainLoadFilters
    \/ MainProcessMbox
    \/ MainValidate
    \/ MainExport

SpecMain == InitMain /\ [][NextMain]_vars

\* =================================================================
\* Properties
\* =================================================================
InBucket(i, b) == \E k \in 1..Len(b) : b[k] = i

\* out is the return value of a call that just completed on emails.
Classified ==
    last.op = "validate_and_sort_emails" /\ last.what = "" /\ out.called

BadFormat(e) == ~e.valid_date \/ ~e.valid_headers

\* C1: validate_and_sort_emails buckets every record by the first rule that
\* applies: (1) invalid date or headers -> bad_formats; (2) otherwise a year
\* other than the year filter -> filtered, reason "Incorrect Year", value the
\* record's year; (3) otherwise filtering enabled and verdict FAILED ->
\* filtered with the filter engine's reason and value; (4) otherwise valid.
C1_RulePrecedence ==
    Classified =>
      \A i \in 1..Len(emails) :
        LET e == emails[i]
            engine == CheckAgainstFilters(e, out.filters).email
        IN  IF BadFormat(e)
            THEN /\ out.assigned[i] = "bad_formats"
                 /\ InBucket(i, out.bad_formats)
                 /\ ~InBucket(i, out.valid) /\ ~InBucket(i, out.filtered)
            ELSE IF e.year # out.year
            THEN /\ out.assigned[i] = "filtered"
                 /\ e.passed_filters = "False"
                 /\ e.filter_reason = "Incorrect Year"
                 /\ e.filter_value = e.year
                 /\ ~InBucket(i, out.valid) /\ ~InBucket(i, out.bad_formats)
            ELSE IF Truthy(out.filters) /\ e.passed_filters = "False"
            THEN /\ out.assigned[i] = "filtered"
                 /\ e.filter_reason = engine.filter_reason
                 /\ e.filter_reason \in {"Domain in filter list", "Staff",
                        "Email address in filter list",
                        "Subject contains keyword in filter list"}
                 /\ e.filter_value = engine.filter_value
                 /\ ~InBucket(i, out.valid) /\ ~InBucket(i, out.bad_formats)
            ELSE /\ out.assigned[i] = "valid"
                 /\ InBucket(i, out.valid)
                 /\ ~InBucket(i, out.bad_formats) /\ ~InBucket(i, out.filtered)

\* A record of another year whose sender host is in the domains list: the
\* year rule has overridden the filter engine's reason.
C1_Witness ==
    /\ Classified
    /\ \E i \in 1..Len(emails) :
         /\ Truthy(out.filters)
         /\ emails[i].from_address_host \in out.filters.domains
         /\ emails[i].filter_reason = "Incorrect Year"
         /\ out.assigned[i] = "filtered"
    /\ \E i \in 1..Len(emails) : out.assigned[i] = "bad_formats"

\* C2: check_against_filters tries domains, staff, emails, keywords in that
\* order and the first list that matches alone decides reason and value; a
\* record no list matches passes.
C2_FilterPriority ==
    (last.op = "check_against_filters" /\ last.what = "") =>
      LET f == last.args[2]
          e == emails[last.args[1]]
      IN  IF e.from_address_host \in f.domains
          THEN /\ e.passed_filters = "False"
               /\ e.filter_reason = "Domain in filter list"
               /\ e.filter_value = PyStr(e.from_address_host)
          ELSE IF e.from_address_email \in f.staff
          THEN /\ e.passed_filters = "False"
               /\ e.filter_reason = "Staff"
               /\ e.filter_value = PyStr(e.from_address_email)
          ELSE IF e.from_address_email \in f.emails
          THEN /\ e.passed_filters = "False"
               /\ e.filter_reason = "Email address in filter list"
               /\ e.filter_value = PyStr(e.from_address_email)
          ELSE IF \E kw \in f.keywords : Contains(kw, e.subject)
          THEN /\ e.passed_filters = "False"
               /\ e.filter_reason = "Subject contains keyword in filter list"
               /\ e.filter_value = PyStr(e.subject)
          ELSE e.passed_filters = "True"

\* A sender in the domains, staff and emails lists, with a keyword in the
\* subject, classified with the domain reason.
C2_Witness ==
    /\ last.op = "check_against_filters"
    /\ LET f == last.args[2]
           e == emails[last.args[1]]
       IN  /\ e.from_address_host \in f.domains
           /\ e.from_address_email \in f.staff
           /\ e.from_address_email \in f.emails
           /\ \E kw \in f.keywords : Contains(kw, e.subject)
           /\ e.filter_reason = "Domain in filter list"

\* C3: the filtered bucket validate_and_sort_emails returns holds no record
\* with reason "Staff" or "Incorrect Year", with a filter list or without,
\* and the valid bucket holds none either.
C3_SuppressedNotReturned ==
    Classified =>
      /\ \A k \in 1..Len(out.filtered) :
           emails[out.filtered[k]].filter_reason \notin SuppressedReasons
      /\ \A k \in 1..Len(out.valid) :
           emails[out.valid[k]].filter_reason \notin SuppressedReasons

\* C4: constructing an Email never raises, so process_mbox yields one record
\* per message.
C4_ConstructionNeverRaises ==
    /\ last.op = "Email" => last.what = ""
    /\ pc \in {"processed", "sorted", "done"} => Len(emails) = Len(mbox)

\* C5: valid_date is false exactly when date is the raw input and year is
\* None; a parsed date is what the first format that reads the string gives;
\* a record no format reads is classified bad_formats with its raw date.
C5_DateValidity ==
    \A i \in 1..Len(emails) :
      LET e == emails[i]
          raw == raws[i].date
      IN  /\ (~e.valid_date) <=> (e.date = raw /\ e.year = PyNone)
          /\ e.valid_date =>
               \E f \in 1..NumDateFormats :
                 /\ ArrowGet(raw, f) = e.date
                 /\ \A g \in 1..(f - 1) : ArrowGet(raw, g) = NoMatch
                 /\ e.year = PyInt(e.date.year)
          /\ (Classified /\ \A f \in 1..NumDateFormats : ArrowGet(raw, f) = NoMatch)
               => /\ InBucket(i, out.bad_formats)
                  /\ e.date = raw

\* A classified list with a record whose date no format reads and a record
\* whose date two formats read.
C5_Witness ==
    /\ Classified
    /\ \E i \in 1..Len(emails) : ~emails[i].valid_date /\ InBucket(i, out.bad_formats)
    /\ \E i \in 1..Len(emails) :
         Cardinality({f \in 1..NumDateFormats : ArrowGet(raws[i].date, f) # NoMatch}) > 1

\* The number of validity flags cleared on the records of a bucket.
RECURSIVE ViolatedFlags(_, _)
ViolatedFlags(bucket, es) ==
    IF bucket = <<>> THEN 0
    ELSE (IF es[Head(bucket)].valid_date THEN 0 ELSE 1)
         + (IF es[Head(bucket)].valid_headers THEN 0 ELSE 1)
         + ViolatedFlags(Tail(bucket), es)

\* C6: export_bad_emails completes for every bad_formats bucket and writes
\* one row per cleared validity flag.
C6_BadExportCompletes ==
    last.op = "export_bad_emails" =>
      /\ last.what = ""
      /\ Len(rows.bad) = ViolatedFlags(out.bad_formats, emails)

\* C7: for every record, filter_reason is set exactly when the verdict is
\* FAILED (passed_filters is False).
C7_ReasonIffFailed ==
    \A i \in 1..Len(emails) :
      (emails[i].filter_reason # "None") <=> (emails[i].passed_filters = "False")

NonDecreasing(bucket, es) ==
    \A k \in 1..(Len(bucket) - 1) :
      ~DateLess(es[bucket[k + 1]].date, es[bucket[k]].date)

\* C8: the valid bucket and the returned filtered bucket are non-decreasing
\* by parsed date and bad_formats keeps the encounter order.
C8_BucketsOrdered ==
    Classified =>
      /\ NonDecreasing(out.valid, emails)
      /\ NonDecreasing(out.filtered, emails)
      /\ \A k \in 1..(Len(out.bad_formats) - 1) :
           out.bad_formats[k] < out.bad_formats[k + 1]

\* C9: a second validate_and_sort_emails on the records the first one left,
\* with the same year and filter list, returns the same three buckets in the
\* same order and leaves the same filter_reason and filter_value.
C9_Idempotent ==
    last.again =>
      /\ out.valid = prev.valid
      /\ out.bad_formats = prev.bad_formats
      /\ out.filtered = prev.filtered
      /\ \A i \in 1..Len(emails) :
           /\ emails[i].filter_reason = prev.emails[i].filter_reason
           /\ emails[i].filter_value = prev.emails[i].filter_value

\* A repeated call on records the first call mutated, with every bucket used.
C9_Witness ==
    /\ last.again
    /\ \E i \in 1..Len(emails) :
         prev.emails[i].filter_reason = "Incorrect Year" /\ InBucket(i, out.filtered)
    /\ \E i \in 1..Len(emails) :
         prev.emails[i].passed_filters = "True" /\ InBucket(i, out.valid)

\* C10: the filter list never aborts main: a failed load_filters disables
\* filtering, a successful one returns every key check_against_filters
\* reads, so filter evaluation ends in a verdict for every record.
C10_FiltersNeverAbort ==
    /\ (pc # "start" /\ ~Truthy(filters)) => ~run_filters
    /\ ~(pc = "crashed" /\ last.op = "validate_and_sort_emails")
====
